---- MODULE Spec2Model ----
(***************************************************************************)
(* bookshell: reconciliation of a local document tree with a Google Drive  *)
(* folder tree.  The model covers the catalog merge (SyncService and the   *)
(* CLI list command), the diff, and the push / pull procedures of the CLI  *)
(* (main.py) and of SyncService, over an abstract Drive store.             *)
(***************************************************************************)
EXTENDS Integers, Sequences, FiniteSets, Bags, TLC

VARIABLES
    local,      \* the local tree: the set of paths [cat, name] below the local root
    folders,    \* Drive: the subfolders of the root folder, folder id k = index
    objects,    \* Drive: the non-folder files, file id i = index
    db,         \* the books table of bookshell.db: the bag of its rows
    pc,         \* position of the running bulk command: "idle", "push_all", "pull_all"
    queue,      \* the candidates the running bulk command has still to process
    batchCat,   \* the --category option of the running push --all
    ran,        \* this invocation has run its command (one that writes to either side)
    out,        \* what the last command returned / displayed
    sync,       \* the pass a running sync --all is in: "none" outside of sync --all
    config      \* the config table: whether local_path and root_folder_id are set

vars == <<local, folders, objects, db, pc, queue, batchCat, ran, out, sync, config>>

(***************************************************************************)
(* Bounds of the model.                                                    *)
(***************************************************************************)
\* the user adds a file, locally or on Drive, while fewer files than this exist in all
MaxFiles == 3

\* the longest description (in tokens) a Drive file carries before bookshell marks it
MaxDescLen == 2

(***************************************************************************)
(* Values.                                                                 *)
(***************************************************************************)
\* Python None (an absent category, path, ...)
None == "~none"

\* Optional[str] drive_id = None
NoDriveId == 0

\* the configured root folder, as a parent id
Root == 0

\* document names, in the order sorted() puts them
NameOrder == <<"a.pdf", "b.epub">>
Names == {NameOrder[i] : i \in 1..Len(NameOrder)}

\* category (folder) names; the scan visits the root first, then the subfolders
CatOrder == <<None, "General", "general", "math">>
Cats == {CatOrder[i] : i \in 2..Len(CatOrder)}
OptCats == Cats \cup {None}

\* the folders the user files documents under, locally and on Drive
LocalUserCats == {None, "general", "math"}
RemoteUserCats == {None, "General", "math"}

\* str.lower() on the category names and on the status words
lower(c) == IF c = "General" THEN "general" ELSE IF c = "READING" THEN "reading" ELSE c

Path(c, n) == [cat |-> c, name |-> n]
NoPath == Path(None, None)
Paths == {Path(c, n) : c \in OptCats, n \in Names}

\* the description tokens the status protocol looks for
Statuses == {"reading", "finished", "new"}

\* get_config("local_path") / get_config("root_folder_id"): set or None
Configs == [local_path : BOOLEAN, root_folder_id : BOOLEAN]

\* the Drive folder can be read and written when there is a root_folder_id and a service;
\* without root_folder_id list_drive_files returns [] and upload_book returns None
DriveAccess(cfg) == IF cfg.root_folder_id THEN BOOLEAN ELSE {FALSE}

\* the files list_local_files and LocalService see: none without a local_path
LocalTree == IF config.local_path THEN local ELSE {}

(***************************************************************************)
(* Listings.                                                               *)
(***************************************************************************)
\* every path in scan order after the stable sort by name
ScanOrder ==
    LET nc == Len(CatOrder)
    IN [i \in 1..(Len(NameOrder) * nc) |->
            Path(CatOrder[((i - 1) % nc) + 1], NameOrder[((i - 1) \div nc) + 1])]

\* core/library.py list_local_files: dicts name, path, category sorted by name
list_local_files(loc) ==
    LET In(p) == p \in loc
        ps == SelectSeq(ScanOrder, In)
    IN [i \in 1..Len(ps) |-> [name |-> ps[i].name, path |-> ps[i], category |-> ps[i].cat]]

\* a variant of DecodeStatus that looks for "[finished]" first
DecodeStatusFinishedFirst(desc) ==
    IF desc # <<>>
    THEN IF \E i \in 1..Len(desc) : desc[i] = "[finished]" THEN "finished"
         ELSE IF \E i \in 1..Len(desc) : desc[i] = "[reading]" THEN "reading"
         ELSE "new"
    ELSE "new"

\* main.py list: status_code parsed from the description of a Drive file
status_code(description) ==
    LET has(marker) == \E i \in 1..Len(description) : description[i] = marker
    IN IF description # <<>> /\ has("[reading]") THEN "reading"
       ELSE IF description # <<>> /\ has("[finished]") THEN "finished"
       ELSE "new"

\* status decoded from a description (a sequence of tokens; <<>> is '' / absent)
DecodeStatus(desc) ==
    IF desc # <<>>
    THEN IF \E i \in 1..Len(desc) : desc[i] = "[reading]" THEN "reading"
         ELSE IF \E i \in 1..Len(desc) : desc[i] = "[finished]" THEN "finished"
         ELSE "new"
    ELSE "new"

\* the files whose parents contain folder f, as API items tagged with category cat
FilesInFolder(objs, f, cat) ==
    LET all == [i \in 1..Len(objs) |->
                    [id |-> i, name |-> objs[i].name, parents |-> objs[i].parents,
                     description |-> objs[i].description, category |-> cat]]
        In(it) == f \in it.parents
    IN SelectSeq(all, In)

RECURSIVE FilesInSubfolders(_, _, _)
FilesInSubfolders(flds, objs, k) ==
    IF k > Len(flds) THEN <<>>
    ELSE FilesInFolder(objs, k, flds[k]) \o FilesInSubfolders(flds, objs, k + 1)

\* core/drive_logic.py list_drive_files: files_root + files_sub; [] without a service
list_drive_files(flds, objs, conn) ==
    IF ~conn THEN <<>>
    ELSE FilesInFolder(objs, Root, None) \o FilesInSubfolders(flds, objs, 1)

Book(n, c, id, p, st, d) ==
    [name |-> n, category |-> c, drive_id |-> id, local_path |-> p, status |-> st,
     description |-> d]

\* LocalService.list_books
LocalService_list_books(loc) ==
    LET fs == list_local_files(loc)
    IN [i \in 1..Len(fs) |->
            Book(fs[i].name, fs[i].category, NoDriveId, fs[i].path, "new", None)]

\* DriveService.list_books (with _list_files_in_folder)
DriveService_list_books(flds, objs, conn) ==
    LET fs == list_drive_files(flds, objs, conn)
    IN [i \in 1..Len(fs) |->
            Book(fs[i].name, fs[i].category, fs[i].id, NoPath,
                 DecodeStatus(fs[i].description), fs[i].description)]

(***************************************************************************)
(* Catalog merge.                                                          *)
(***************************************************************************)
\* dict assignment d[k] = v
Put(d, k, v) == [x \in (DOMAIN d) \cup {k} |-> IF x = k THEN v ELSE d[x]]

RECURSIVE AddLocalBooks(_, _)
AddLocalBooks(library, bs) ==
    IF bs = <<>> THEN library
    ELSE AddLocalBooks(Put(library, Head(bs).name, Head(bs)), Tail(bs))

\* a variant of MergeDriveBook that forgets the else branch (remote-only books)
MergeDriveBookNoInsert(library, b) ==
    IF b.name \in DOMAIN library
    THEN Put(library, b.name, [library[b.name] EXCEPT !.drive_id = b.drive_id,
                                                     !.status = b.status])
    ELSE library

\* a variant of MergeDriveBook that lets the Drive category replace the local one
MergeDriveBookDriveCategory(library, b) ==
    IF b.name \in DOMAIN library
    THEN Put(library, b.name, [library[b.name] EXCEPT !.drive_id = b.drive_id,
                                                     !.status = b.status,
                                                     !.category = b.category])
    ELSE Put(library, b.name, b)

\* a variant of MergeDriveBook that leaves the status of a local entry as it was
MergeDriveBookKeepStatus(library, b) ==
    IF b.name \in DOMAIN library
    THEN LET existing == library[b.name]
             upd == [existing EXCEPT !.drive_id = b.drive_id]
         IN Put(library, b.name,
                IF upd.category = None THEN [upd EXCEPT !.category = b.category] ELSE upd)
    ELSE Put(library, b.name, b)

\* a variant of MergeDriveBook that replaces an entry which already carries a drive_id
\* by the Drive book
MergeDriveBookReplaceMerged(library, b) ==
    IF b.name \in DOMAIN library /\ library[b.name].drive_id = NoDriveId
    THEN LET existing == library[b.name]
             upd == [existing EXCEPT !.drive_id = b.drive_id, !.status = b.status]
         IN Put(library, b.name,
                IF upd.category = None THEN [upd EXCEPT !.category = b.category] ELSE upd)
    ELSE Put(library, b.name, b)

\* SyncService.get_library, the body of the loop over drive_books
MergeDriveBook(library, b) ==
    IF b.name \in DOMAIN library
    THEN LET existing == library[b.name]
             upd == [existing EXCEPT !.drive_id = b.drive_id, !.status = b.status]
         IN Put(library, b.name,
                IF upd.category = None THEN [upd EXCEPT !.category = b.category] ELSE upd)
    ELSE Put(library, b.name, b)

RECURSIVE MergeDriveBooks(_, _)
MergeDriveBooks(library, bs) ==
    IF bs = <<>> THEN library
    ELSE MergeDriveBooks(MergeDriveBook(library, Head(bs)), Tail(bs))

\* sorted(library.values(), key=name)
SortedValues(library) ==
    LET In(n) == n \in DOMAIN library
        ns == SelectSeq(NameOrder, In)
    IN [i \in 1..Len(ns) |-> library[ns[i]]]

\* SyncService.get_library
get_library(local_books, drive_books) ==
    SortedValues(MergeDriveBooks(AddLocalBooks(<<>>, local_books), drive_books))

\* SyncService.get_library keeps the Book objects of the listings in its dict, so the
\* assignments of lines 28-32 change the listed objects: the last local book of a name,
\* or the first Drive book of a name that has no local book.  The listings afterwards:
local_books_after(local_books, drive_books) ==
    LET library == MergeDriveBooks(AddLocalBooks(<<>>, local_books), drive_books)
        Last(i) == \A j \in 1..Len(local_books) :
                      j > i => local_books[j].name # local_books[i].name
    IN [i \in 1..Len(local_books) |->
            IF Last(i) THEN library[local_books[i].name] ELSE local_books[i]]

drive_books_after(local_books, drive_books) ==
    LET library == MergeDriveBooks(AddLocalBooks(<<>>, local_books), drive_books)
        Entered(i) == /\ \A j \in 1..Len(local_books) : local_books[j].name # drive_books[i].name
                      /\ \A j \in 1..Len(drive_books) :
                            j < i => drive_books[j].name # drive_books[i].name
    IN [i \in 1..Len(drive_books) |->
            IF Entered(i) THEN library[drive_books[i].name] ELSE drive_books[i]]

\* the merge run once more on the same Book objects
get_library_again(local_books, drive_books) ==
    get_library(local_books_after(local_books, drive_books),
                drive_books_after(local_books, drive_books))

\* a variant of is_local_only that forgets to test the drive_id
is_local_only_any(b) == b.local_path # NoPath

\* a variant of get_diff that uploads every book that has a local path
get_diff_all_local(library) ==
    LET Up(b) == b.local_path # NoPath
        Down(b) == b.drive_id # NoDriveId /\ ~(b.local_path # NoPath)
    IN [to_upload |-> SelectSeq(library, Up), to_download |-> SelectSeq(library, Down)]

\* Book.is_synced, is_local_only, is_drive_only
is_synced(b) == b.drive_id # NoDriveId /\ b.local_path # NoPath
is_local_only(b) == b.local_path # NoPath /\ ~(b.drive_id # NoDriveId)
is_drive_only(b) == b.drive_id # NoDriveId /\ ~(b.local_path # NoPath)

\* SyncService.get_diff on a merged library
get_diff(library) ==
    LET Up(b) == is_local_only(b)
        Down(b) == is_drive_only(b)
    IN [to_upload |-> SelectSeq(library, Up), to_download |-> SelectSeq(library, Down)]

\* main.py list: the merge of the CLI list command, a dict name -> info
RECURSIVE ListAddLocal(_, _)
ListAddLocal(library, bs) ==
    IF bs = <<>> THEN library
    ELSE ListAddLocal(Put(library, Head(bs).name,
                          [local |-> TRUE, drive |-> FALSE, cat_local |-> Head(bs).category,
                           cat_drive |-> None, status |-> "new"]), Tail(bs))

RECURSIVE ListAddDrive(_, _)
ListAddDrive(library, bs) ==
    IF bs = <<>> THEN library
    ELSE LET b == Head(bs)
             code == status_code(b.description)
         IN ListAddDrive(
                IF b.name \in DOMAIN library
                THEN Put(library, b.name, [library[b.name] EXCEPT !.drive = TRUE,
                                              !.cat_drive = b.category, !.status = code])
                ELSE Put(library, b.name,
                         [local |-> FALSE, drive |-> TRUE, cat_local |-> None,
                          cat_drive |-> b.category, status |-> code]),
                Tail(bs))

list_merge(local_books, drive_books) ==
    ListAddDrive(ListAddLocal(<<>>, local_books), drive_books)

\* main.py list, line 97: the category shown for an entry
display_cat(info) == IF info.cat_local # None THEN info.cat_local ELSE info.cat_drive

(***************************************************************************)
(* Results of commands.                                                    *)
(***************************************************************************)
NoOut ==
    [cmd |-> "none", path |-> NoPath, category |-> None, result |-> "none",
     prompts |-> <<>>, drive_id |-> NoDriveId, success |-> <<>>,
     library |-> <<>>, listing |-> <<>>, to_upload |-> <<>>, to_download |-> <<>>, connected |-> TRUE,
     status |-> None, count |-> 0]

Init ==
    /\ local = {}
    /\ folders = <<>>
    /\ objects = <<>>
    /\ db = EmptyBag
    /\ pc = "idle"
    /\ queue = <<>>
    /\ batchCat = None
    /\ ran = FALSE
    /\ out = NoOut
    /\ sync = "none"
    /\ config \in Configs

(***************************************************************************)
(* The user, outside bookshell, before the commands are run: drops a file  *)
(* into the local folder, or adds a file to the Drive folder.              *)
(***************************************************************************)
FolderNamed(flds, c) == {k \in 1..Len(flds) : flds[k] = c}

LocalAdd ==
    /\ pc = "idle"
    /\ ~ran
    /\ Cardinality(local) + Len(objects) < MaxFiles
    /\ \E p \in {q \in Paths : q.cat \in LocalUserCats} \ local : local' = local \cup {p}
    /\ out' = [NoOut EXCEPT !.cmd = "user"]
    /\ UNCHANGED <<folders, objects, db, pc, queue, batchCat, ran, sync, config>>

RemoteAdd ==
    /\ pc = "idle"
    /\ ~ran
    /\ Cardinality(local) + Len(objects) < MaxFiles
    /\ \E n \in Names, c \in RemoteUserCats :
          LET have == FolderNamed(folders, c)
              flds == IF c = None \/ have # {} THEN folders ELSE Append(folders, c)
              f == IF c = None THEN Root
                   ELSE IF have # {} THEN CHOOSE k \in have : TRUE ELSE Len(flds)
          IN /\ folders' = flds
             /\ objects' = Append(objects, [name |-> n, parents |-> {f}, description |-> <<>>])
    /\ out' = [NoOut EXCEPT !.cmd = "user"]
    /\ UNCHANGED <<local, db, pc, queue, batchCat, ran, sync, config>>

\* a variant of get_or_create_subfolder that creates the folder without looking for it
get_or_create_subfolder_always(flds, subfolder_name) ==
    [folders |-> Append(flds, subfolder_name), id |-> Len(flds) + 1]

(***************************************************************************)
(* Drive and database operations.                                          *)
(***************************************************************************)
\* core/drive_logic.py get_or_create_subfolder: the first folder of that name, or a new one
get_or_create_subfolder(flds, subfolder_name) ==
    LET items == FolderNamed(flds, subfolder_name)
    IN IF items = {}
       THEN [folders |-> Append(flds, subfolder_name), id |-> Len(flds) + 1]
       ELSE [folders |-> flds, id |-> CHOOSE k \in items : \A j \in items : k <= j]

\* a variant of move_file that adds the new parent and keeps the old ones
move_file_keep_parents(objs, file_id, current_parents, new_parent_id) ==
    [objs EXCEPT ![file_id].parents = @ \cup {new_parent_id}]

\* core/database_manager.py delete_book_by_name: DELETE FROM books WHERE title = ?
delete_book_by_name(rows, title) ==
    [r \in {x \in BagToSet(rows) : x.title # title} |-> rows[r]]

\* core/drive_logic.py move_file: addParents = new_parent_id, removeParents = current_parents
move_file(objs, file_id, current_parents, new_parent_id) ==
    [objs EXCEPT ![file_id].parents = (@ \ current_parents) \cup {new_parent_id}]

\* files().create of a document under target_folder_id; the new id is returned
create_file(objs, name, target_folder_id) ==
    Append(objs, [name |-> name, parents |-> {target_folder_id}, description |-> <<>>])

\* core/database_manager.py save_book: INSERT OR REPLACE INTO books (the primary key is
\* the autoincrement id, so the statement always inserts a row)
save_book(rows, title, drive_id, category, local_path) ==
    rows (+) SetToBag({[title |-> title, drive_id |-> drive_id, category |-> category,
                        local_path |-> local_path]})

\* the category test of _push_single_file and of push --all
cats_match(category, drive_cat) ==
    \/ category = None /\ drive_cat = None
    \/ category # None /\ drive_cat # None /\ lower(category) = lower(drive_cat)

\* the items of a listing that carry a name
ByName(items, n) == LET Is(b) == b.name = n IN SelectSeq(items, Is)

(***************************************************************************)
(* main.py _push_single_file.  conn: a Drive service can be built; sel:    *)
(* the answer to the duplicate prompt (0 = skip, i = the i-th candidate);  *)
(* choice: the answer to the conflict prompt; xfer: "ok", or "raise" when  *)
(* the Drive call raises.  The result is the effect of the call.           *)
(***************************************************************************)
PushEffect(res, prompts, flds, objs, rows, id) ==
    [result |-> res, prompts |-> prompts, folders |-> flds, objects |-> objs, db |-> rows,
     drive_id |-> id]

\* a variant of upload_and_record that files a document without category under "General"
upload_and_record_general(path, category, prompts, flds, objs, rows, conn, xfer) ==
    IF ~conn THEN PushEffect("upload_failed", prompts, flds, objs, rows, NoDriveId)
    ELSE LET cat == IF category # None THEN category ELSE "General"
             t == get_or_create_subfolder(flds, cat)
         IN IF xfer = "raise" THEN PushEffect("raised", prompts, t.folders, objs, rows, NoDriveId)
            ELSE LET objs2 == create_file(objs, path.name, t.id)
                     drive_id == Len(objs2)
                 IN PushEffect("uploaded", prompts, t.folders, objs2,
                               save_book(rows, path.name, drive_id, cat, path), drive_id)

\* a variant of upload_and_record that always creates the category folder
upload_and_record_new_folder(path, category, prompts, flds, objs, rows, conn, xfer) ==
    IF ~conn THEN PushEffect("upload_failed", prompts, flds, objs, rows, NoDriveId)
    ELSE LET t == IF category # None
                  THEN [folders |-> Append(flds, category), id |-> Len(flds) + 1]
                  ELSE [folders |-> flds, id |-> Root]
         IN IF xfer = "raise" THEN PushEffect("raised", prompts, t.folders, objs, rows, NoDriveId)
            ELSE LET objs2 == create_file(objs, path.name, t.id)
                     drive_id == Len(objs2)
                 IN PushEffect("uploaded", prompts, t.folders, objs2,
                               save_book(rows, path.name, drive_id, category, path), drive_id)

\* core/drive_logic.py upload_book, then the save_book of _push_single_file
upload_and_record(path, category, prompts, flds, objs, rows, conn, xfer) ==
    IF ~conn THEN PushEffect("upload_failed", prompts, flds, objs, rows, NoDriveId)
    ELSE LET t == IF category # None THEN get_or_create_subfolder(flds, category)
                  ELSE [folders |-> flds, id |-> Root]
         IN IF xfer = "raise" THEN PushEffect("raised", prompts, t.folders, objs, rows, NoDriveId)
            ELSE LET objs2 == create_file(objs, path.name, t.id)
                     drive_id == Len(objs2)
                 IN PushEffect("uploaded", prompts, t.folders, objs2,
                               save_book(rows, path.name, drive_id, category, path), drive_id)

\* a variant of resolve_existing that records the Drive file when it is kept
resolve_existing_record_kept(path, category, existing_file, prompts, flds, objs, rows, choice, xfer) ==
    LET drive_cat == existing_file.category
    IN IF ~cats_match(category, drive_cat)
       THEN LET asked == Append(prompts, [kind |-> "conflict", choices |-> <<"local", "drive", "skip">>,
                                          drive_cat |-> drive_cat, local_cat |-> category])
            IN IF choice = "skip" THEN PushEffect("skipped", asked, flds, objs, rows, NoDriveId)
               ELSE IF choice = "local"
               THEN LET t == IF category # None THEN get_or_create_subfolder(flds, category)
                             ELSE [folders |-> flds, id |-> Root]
                    IN IF xfer = "raise"
                       THEN PushEffect("raised", asked, t.folders, objs, rows, NoDriveId)
                       ELSE PushEffect("moved", asked, t.folders,
                                       move_file(objs, existing_file.id, existing_file.parents, t.id),
                                       rows, NoDriveId)
               ELSE PushEffect("kept_drive", asked, flds, objs,
                               save_book(rows, path.name, existing_file.id, drive_cat, path),
                               NoDriveId)
       ELSE PushEffect("already_exists", prompts, flds, objs, rows, NoDriveId)

\* the conflict branch of _push_single_file (lines 271-308)
resolve_existing(path, category, existing_file, prompts, flds, objs, rows, choice, xfer) ==
    LET drive_cat == existing_file.category
    IN IF ~cats_match(category, drive_cat)
       THEN LET asked == Append(prompts, [kind |-> "conflict", choices |-> <<"local", "drive", "skip">>,
                                          drive_cat |-> drive_cat, local_cat |-> category])
            IN IF choice = "skip" THEN PushEffect("skipped", asked, flds, objs, rows, NoDriveId)
               ELSE IF choice = "local"
               THEN LET t == IF category # None THEN get_or_create_subfolder(flds, category)
                             ELSE [folders |-> flds, id |-> Root]
                    IN IF xfer = "raise"
                       THEN PushEffect("raised", asked, t.folders, objs, rows, NoDriveId)
                       ELSE PushEffect("moved", asked, t.folders,
                                       move_file(objs, existing_file.id, existing_file.parents, t.id),
                                       rows, NoDriveId)
               ELSE PushEffect("kept_drive", asked, flds, objs, rows, NoDriveId)
       ELSE PushEffect("already_exists", prompts, flds, objs, rows, NoDriveId)

\* _push_single_file, lines 231-239: the category option, else the subfolder of the file
\* below local_path; without a local_path Path(None) raises TypeError, which is caught,
\* and the category stays as given
resolve_category(path, category0) ==
    IF category0 # None THEN category0
    ELSE IF config.local_path THEN path.cat
    ELSE None

push_single_file(path, category0, flds, objs, rows, conn, sel, choice, xfer) ==
    LET category == resolve_category(path, category0)
        drive_books == list_drive_files(flds, objs, conn)
        existing_files == ByName(drive_books, path.name)
        n == Len(existing_files)
        dup == [kind |-> "duplicate",
                choices |-> [i \in 1..n |->
                                [cat |-> IF existing_files[i].category # None
                                         THEN existing_files[i].category ELSE "General",
                                 id |-> existing_files[i].id]],
                drive_cat |-> None, local_cat |-> None]
    IN IF n > 1
       THEN IF sel = 0 THEN PushEffect("dup_skipped", <<dup>>, flds, objs, rows, NoDriveId)
            ELSE resolve_existing(path, category, existing_files[sel], <<dup>>, flds, objs, rows,
                                  choice, xfer)
       ELSE IF n = 1
       THEN resolve_existing(path, category, existing_files[1], <<>>, flds, objs, rows, choice, xfer)
       ELSE upload_and_record(path, category, <<>>, flds, objs, rows, conn, xfer)

\* the answers that can be given to the prompts of one _push_single_file call
SelAnswers(path, flds, objs, conn) ==
    LET n == Len(ByName(list_drive_files(flds, objs, conn), path.name))
    IN IF n > 1 THEN 0..n ELSE {0}

ChoiceAnswers == {"local", "drive", "skip"}

\* the values given to the --category option of push
CategoryOptions == {None, "math"}
\* the outcomes of a Drive transfer call
Xfers == {"ok", "raise"}

\* whether the read-only commands find a Drive service
ReadConn == BOOLEAN

\* main.py push, single file: the path must exist
Push ==
    /\ pc = "idle"
    /\ ~ran
    /\ ran' = TRUE
    /\ \E path \in local, category \in CategoryOptions, conn \in DriveAccess(config) :
       \E sel \in SelAnswers(path, folders, objects, conn), choice \in ChoiceAnswers,
          xfer \in Xfers :
          LET e == push_single_file(path, category, folders, objects, db, conn, sel, choice, xfer)
          IN /\ folders' = e.folders
             /\ objects' = e.objects
             /\ db' = e.db
             /\ out' = [NoOut EXCEPT !.cmd = "push", !.path = path,
                           !.category = resolve_category(path, category),
                           !.result = e.result, !.prompts = e.prompts, !.drive_id = e.drive_id]
    /\ UNCHANGED <<local, pc, queue, batchCat, sync, config>>

\* main.py push --all, lines 339-385: the candidates
to_process(local_files, drive_books) ==
    LET drive_map(n) == LET c == ByName(drive_books, n) IN c[Len(c)]
        Sel(f) == \/ ByName(drive_books, f.name) = <<>>
                  \/ ~cats_match(f.category, drive_map(f.name).category)
    IN SelectSeq(local_files, Sel)

\* a variant of sync_after_push that goes on to the pull pass whatever the push pass did
sync_after_push_always(phase, res) ==
    IF phase # "push" THEN phase
    ELSE IF res \in {"aborted", "raised", "completed", "all_synced"} THEN "pull"
    ELSE "push"

\* main.py sync, lines 440-446: pull(all=True) is called when push(all=True) returned;
\* the typer.Exit of a refused confirmation and a raised error leave sync as well
sync_after_push(phase, res) ==
    IF phase # "push" THEN phase
    ELSE IF res \in {"aborted", "raised"} THEN "aborted"
    ELSE IF res \in {"completed", "all_synced"} THEN "pull"
    ELSE "push"

\* main.py push --all up to the confirmation (lines 339-398)
PushAllStart ==
    /\ pc = "idle"
    /\ ~ran
    /\ ran' = TRUE
    /\ \E category \in CategoryOptions, conn \in DriveAccess(config), confirm \in BOOLEAN :
          LET cand == to_process(list_local_files(LocalTree), list_drive_files(folders, objects, conn))
          IN IF cand = <<>>
             THEN /\ out' = [NoOut EXCEPT !.cmd = "push_all", !.result = "all_synced"]
                  /\ UNCHANGED <<pc, queue, batchCat>>
             ELSE IF ~confirm
             THEN /\ out' = [NoOut EXCEPT !.cmd = "push_all", !.result = "aborted",
                                !.to_upload = cand, !.connected = conn]
                  /\ UNCHANGED <<pc, queue, batchCat>>
             ELSE /\ out' = [NoOut EXCEPT !.cmd = "push_all", !.result = "started",
                                !.to_upload = cand, !.connected = conn]
                  /\ pc' = "push_all"
                  /\ queue' = cand
                  /\ batchCat' = category
    /\ UNCHANGED <<local, folders, objects, db, sync, config>>

\* main.py push --all, one turn of the loop of lines 401-403
PushAllStep ==
    /\ pc = "push_all"
    /\ queue # <<>>
    /\ LET path == Head(queue).path
       IN \E conn \in DriveAccess(config) :
          \E sel \in SelAnswers(path, folders, objects, conn), choice \in ChoiceAnswers,
             xfer \in Xfers :
             LET e == push_single_file(path, batchCat, folders, objects, db, conn, sel, choice, xfer)
             IN /\ folders' = e.folders
                /\ objects' = e.objects
                /\ db' = e.db
                /\ out' = [NoOut EXCEPT !.cmd = "push_all_item", !.path = path,
                              !.category = resolve_category(path, batchCat),
                              !.result = e.result, !.prompts = e.prompts,
                              !.drive_id = e.drive_id]
                /\ IF e.result = "raised"
                   THEN pc' = "idle" /\ queue' = <<>> /\ batchCat' = None
                   ELSE pc' = pc /\ queue' = Tail(queue) /\ batchCat' = batchCat
                /\ sync' = sync_after_push(sync, e.result)
    /\ UNCHANGED <<local, ran, config>>

\* main.py push --all, line 405
PushAllDone ==
    /\ pc = "push_all"
    /\ queue = <<>>
    /\ sync' = sync_after_push(sync, "completed")
    /\ pc' = IF sync' = "pull" THEN "sync_pull" ELSE "idle"
    /\ batchCat' = None
    /\ out' = [NoOut EXCEPT !.cmd = "push_all", !.result = "completed"]
    /\ UNCHANGED <<local, folders, objects, db, queue, ran, config>>

(***************************************************************************)
(* main.py pull.                                                           *)
(***************************************************************************)
\* core/drive_logic.py download_book: False without a service, raises when the Drive
\* call raises, else writes the file at local_path (replacing what is there)
download_book(loc, conn, xfer, local_path) ==
    IF ~conn THEN [ok |-> FALSE, raised |-> FALSE, local |-> loc]
    ELSE IF xfer = "raise" THEN [ok |-> FALSE, raised |-> TRUE, local |-> loc]
    ELSE [ok |-> TRUE, raised |-> FALSE, local |-> loc \cup {local_path}]

\* a variant of pull_target_path that files a book without category under "General"
pull_target_path_general(book) ==
    Path(IF book.category # None THEN book.category ELSE "General", book.name)

\* main.py pull, lines 174-177 and 204-207: local_root / category / name, or
\* local_root / name for a book without category
pull_target_path(book) == Path(book.category, book.name)

\* main.py pull, single file (lines 192-225)
Pull ==
    /\ pc = "idle"
    /\ ~ran
    /\ ran' = TRUE
    /\ \E book_name \in Names, conn \in DriveAccess(config), xfer \in Xfers :
          LET found == ByName(list_drive_files(folders, objects, conn), book_name)
          IN IF ~config.local_path
             THEN \* line 136: Path(get_config("local_path")) raises TypeError
                  /\ out' = [NoOut EXCEPT !.cmd = "pull", !.path = Path(None, book_name),
                                !.result = "raised"]
                  /\ UNCHANGED <<local, db>>
             ELSE IF found = <<>>
             THEN /\ out' = [NoOut EXCEPT !.cmd = "pull", !.path = Path(None, book_name),
                                !.result = "not_found"]
                  /\ UNCHANGED <<local, db>>
             ELSE LET target_book == found[1]
                      category == target_book.category
                      target_path == pull_target_path(target_book)
                      d == download_book(local, conn, xfer, target_path)
                  IN IF target_path \in local
                     THEN /\ out' = [NoOut EXCEPT !.cmd = "pull", !.path = target_path,
                                        !.category = category, !.result = "already_exists"]
                          /\ UNCHANGED <<local, db>>
                     ELSE /\ local' = d.local
                          /\ db' = IF d.ok
                                   THEN save_book(db, book_name, target_book.id, category, target_path)
                                   ELSE db
                          /\ out' = [NoOut EXCEPT !.cmd = "pull", !.path = target_path,
                                        !.category = category, !.drive_id = target_book.id,
                                        !.result = IF d.ok THEN "downloaded"
                                                   ELSE IF d.raised THEN "raised"
                                                   ELSE "download_failed"]
    /\ UNCHANGED <<folders, objects, pc, queue, batchCat, sync, config>>

\* main.py pull --all, lines 141-145: the Drive files whose name is not a local name
to_download(local_files, drive_books) ==
    LET Missing(b) == ByName(local_files, b.name) = <<>>
    IN SelectSeq(drive_books, Missing)

\* main.py pull --all up to the confirmation (lines 138-162)
PullAllStart ==
    /\ pc = "idle"
    /\ ~ran
    /\ ran' = TRUE
    /\ \E conn \in DriveAccess(config), confirm \in BOOLEAN :
          LET cand == to_download(list_local_files(LocalTree), list_drive_files(folders, objects, conn))
          IN IF ~config.local_path
             THEN \* line 136: Path(get_config("local_path")) raises TypeError
                  /\ out' = [NoOut EXCEPT !.cmd = "pull_all", !.result = "raised"]
                  /\ UNCHANGED <<pc, queue>>
             ELSE IF cand = <<>>
             THEN /\ out' = [NoOut EXCEPT !.cmd = "pull_all", !.result = "all_synced"]
                  /\ UNCHANGED <<pc, queue>>
             ELSE IF ~confirm
             THEN /\ out' = [NoOut EXCEPT !.cmd = "pull_all", !.result = "aborted",
                                !.to_download = cand]
                  /\ UNCHANGED <<pc, queue>>
             ELSE /\ out' = [NoOut EXCEPT !.cmd = "pull_all", !.result = "started",
                                !.to_download = cand]
                  /\ pc' = "pull_all"
                  /\ queue' = cand
    /\ UNCHANGED <<local, folders, objects, db, batchCat, sync, config>>

\* main.py pull --all, one turn of the loop of lines 173-187
PullAllStep ==
    /\ pc = "pull_all"
    /\ queue # <<>>
    /\ \E conn \in DriveAccess(config), xfer \in Xfers :
          LET book == Head(queue)
              category == book.category
              target_path == pull_target_path(book)
              d == download_book(local, conn, xfer, target_path)
          IN /\ local' = d.local
             /\ db' = IF d.ok THEN save_book(db, book.name, book.id, category, target_path)
                      ELSE db
             /\ out' = [NoOut EXCEPT !.cmd = "pull_all_item", !.path = target_path,
                           !.category = category, !.drive_id = book.id,
                           \* what the batch was started with, and the downloads that
                           \* returned True so far
                           !.to_download = out.to_download,
                           !.success = IF d.ok THEN Append(out.success, book.name)
                                       ELSE out.success,
                           !.result = IF d.ok THEN (IF target_path \in local THEN "overwritten"
                                                                          ELSE "downloaded")
                                      ELSE IF d.raised THEN "raised"
                                      ELSE "download_failed"]
             /\ IF d.raised
                THEN pc' = "idle" /\ queue' = <<>>
                ELSE pc' = pc /\ queue' = Tail(queue)
             /\ sync' = IF sync = "pull" /\ d.raised THEN "aborted" ELSE sync
    /\ UNCHANGED <<folders, objects, batchCat, ran, config>>

\* main.py pull --all, line 189
PullAllDone ==
    /\ pc = "pull_all"
    /\ queue = <<>>
    /\ sync' = IF sync = "pull" THEN "done" ELSE sync
    /\ pc' = "idle"
    \* line 189 prints count = len(to_download)
    /\ out' = [NoOut EXCEPT !.cmd = "pull_all", !.result = "completed",
                  !.count = Len(out.to_download), !.to_download = out.to_download,
                  !.success = out.success]
    /\ UNCHANGED <<local, folders, objects, db, queue, batchCat, ran, config>>

(***************************************************************************)
(* main.py sync --all: push(all=True), then pull(all=True).  sync holds the *)
(* place of the command: "push" in the push pass, "pull" once push has     *)
(* returned, "aborted" when an exit or an error left the command, "done"   *)
(* at the end.  sync --local and sync --remote are push --all and          *)
(* pull --all.                                                             *)
(***************************************************************************)
\* main.py sync, lines 440-442, with push --all up to the confirmation
SyncStart ==
    /\ pc = "idle"
    /\ ~ran
    /\ ran' = TRUE
    /\ \E conn \in DriveAccess(config), confirm \in BOOLEAN :
          LET cand == to_process(list_local_files(LocalTree), list_drive_files(folders, objects, conn))
              res == IF cand = <<>> THEN "all_synced"
                     ELSE IF ~confirm THEN "aborted"
                     ELSE "started"
          IN /\ out' = [NoOut EXCEPT !.cmd = "sync_all", !.result = res,
                           !.to_upload = cand, !.connected = conn]
             /\ sync' = sync_after_push("push", res)
             /\ pc' = IF res = "started" THEN "push_all"
                      ELSE IF sync' = "pull" THEN "sync_pull"
                      ELSE "idle"
             /\ queue' = IF res = "started" THEN cand ELSE <<>>
    /\ UNCHANGED <<local, folders, objects, db, batchCat, config>>

\* main.py sync, lines 444-446, with pull --all up to the confirmation
SyncPullStart ==
    /\ pc = "sync_pull"
    /\ \E conn \in DriveAccess(config), confirm \in BOOLEAN :
          LET cand == to_download(list_local_files(LocalTree), list_drive_files(folders, objects, conn))
              res == IF ~config.local_path THEN "raised"
                     ELSE IF cand = <<>> THEN "all_synced"
                     ELSE IF ~confirm THEN "aborted"
                     ELSE "started"
          IN /\ out' = [NoOut EXCEPT !.cmd = "pull_all", !.result = res,
                           !.connected = conn,
                           !.to_download = IF res \in {"aborted", "started"} THEN cand ELSE <<>>]
             /\ sync' = IF res = "started" THEN "pull"
                        ELSE IF res = "all_synced" THEN "done"
                        ELSE "aborted"
             /\ pc' = IF res = "started" THEN "pull_all" ELSE "idle"
             /\ queue' = IF res = "started" THEN cand ELSE <<>>
    /\ UNCHANGED <<local, folders, objects, db, batchCat, ran, config>>

(***************************************************************************)
(* main.py organize.                                                       *)
(***************************************************************************)
\* the drive_id organize stores for a book that Drive does not list
Pending == -1

\* the category arguments of organize; None is the empty answer to the prompt
OrganizeCategories == {None, "General", "math"}

\* a variant of organize_move that writes the row although the local move failed
organize_move_record_anyway(book, category, loc, flds, objs, rows, conn, moved, xfer) ==
    LET dest_path == Path(category, book.name)
        loc1 == (loc \ {book.path}) \cup {dest_path}
        found == ByName(list_drive_files(flds, objs, conn), book.name)
    IN IF ~moved
       THEN [result |-> "move_failed", local |-> loc, folders |-> flds, objects |-> objs,
             db |-> save_book(rows, book.name, Pending, category, dest_path),
             drive_id |-> NoDriveId]
       ELSE IF found = <<>>
       THEN [result |-> "moved_local", local |-> loc1, folders |-> flds, objects |-> objs,
             db |-> save_book(rows, book.name, Pending, category, dest_path),
             drive_id |-> Pending]
       ELSE LET drive_file == found[1]
                t == get_or_create_subfolder(flds, category)
            IN IF xfer = "raise"
               THEN [result |-> "raised", local |-> loc1, folders |-> t.folders,
                     objects |-> objs, db |-> rows, drive_id |-> drive_file.id]
               ELSE [result |-> "moved", local |-> loc1, folders |-> t.folders,
                     objects |-> move_file(objs, drive_file.id, drive_file.parents, t.id),
                     db |-> save_book(rows, book.name, drive_file.id, category, dest_path),
                     drive_id |-> drive_file.id]

\* main.py organize, lines 579-613, once the move is confirmed: the local move, the
\* Drive move of the first listed document of that name, the row.  moved: shutil.move
\* went through; xfer = "raise": the files().update of move_file raises
organize_move(book, category, loc, flds, objs, rows, conn, moved, xfer) ==
    LET dest_path == Path(category, book.name)
        loc1 == (loc \ {book.path}) \cup {dest_path}
        found == ByName(list_drive_files(flds, objs, conn), book.name)
    IN IF ~moved
       THEN [result |-> "move_failed", local |-> loc, folders |-> flds, objects |-> objs,
             db |-> rows, drive_id |-> NoDriveId]
       ELSE IF found = <<>>
       THEN [result |-> "moved_local", local |-> loc1, folders |-> flds, objects |-> objs,
             db |-> save_book(rows, book.name, Pending, category, dest_path),
             drive_id |-> Pending]
       ELSE LET drive_file == found[1]
                t == get_or_create_subfolder(flds, category)
            IN IF xfer = "raise"
               THEN [result |-> "raised", local |-> loc1, folders |-> t.folders,
                     objects |-> objs, db |-> rows, drive_id |-> drive_file.id]
               ELSE [result |-> "moved", local |-> loc1, folders |-> t.folders,
                     objects |-> move_file(objs, drive_file.id, drive_file.parents, t.id),
                     db |-> save_book(rows, book.name, drive_file.id, category, dest_path),
                     drive_id |-> drive_file.id]

\* main.py organize(book_name, category); sync_now: the answer to the last prompt, after
\* which push --all runs up to its own confirmation
Organize ==
    /\ pc = "idle"
    /\ ~ran
    /\ ran' = TRUE
    /\ \E book_name \in Names, category \in OrganizeCategories, confirm \in BOOLEAN :
          LET local_files == list_local_files(LocalTree)
              found == ByName(local_files, book_name)
              book == found[1]
              current_cat == IF book.category = None THEN "General" ELSE book.category
              early == IF found = <<>> THEN "not_found"
                       ELSE IF category = None THEN "invalid_category"
                       ELSE IF category = current_cat THEN "already"
                       ELSE IF ~confirm THEN "cancelled"
                       ELSE "go"
          IN IF early # "go"
             THEN /\ out' = [NoOut EXCEPT !.cmd = "organize", !.path = Path(None, book_name),
                                !.category = category, !.result = early]
                  /\ UNCHANGED <<local, folders, objects, db, pc, queue>>
             ELSE \E conn \in DriveAccess(config), moved \in BOOLEAN, xfer \in Xfers,
                     sync_now \in BOOLEAN, push_confirm \in BOOLEAN :
                     LET e == organize_move(book, category, local, folders, objects, db,
                                            conn, moved, xfer)
                         cand == IF e.result \in {"moved", "moved_local"} /\ sync_now
                                 THEN to_process(list_local_files(e.local),
                                                 list_drive_files(e.folders, e.objects, conn))
                                 ELSE <<>>
                         batch == cand # <<>> /\ push_confirm
                     IN /\ local' = e.local
                        /\ folders' = e.folders
                        /\ objects' = e.objects
                        /\ db' = e.db
                        /\ out' = [NoOut EXCEPT !.cmd = "organize", !.path = book.path,
                                      !.category = category, !.result = e.result,
                                      !.drive_id = e.drive_id, !.to_upload = cand,
                                      !.connected = conn]
                        /\ pc' = IF batch THEN "push_all" ELSE "idle"
                        /\ queue' = IF batch THEN cand ELSE <<>>
    /\ UNCHANGED <<batchCat, sync, config>>

(***************************************************************************)
(* SyncService.sync_push and sync_pull.  The DriveService of a SyncService *)
(* is built once, so conn holds for the whole call.                        *)
(***************************************************************************)
\* DriveService.upload_book: None without a service, else the id of the created file
RECURSIVE sync_push_loop(_, _, _, _, _, _)
sync_push_loop(targets, flds, objs, conn, raise_at, success_list) ==
    IF targets = <<>>
    THEN [folders |-> flds, objects |-> objs, success |-> success_list, raised |-> FALSE]
    ELSE LET book == Head(targets)
         IN IF book.local_path = NoPath
            THEN sync_push_loop(Tail(targets), flds, objs, conn, raise_at, success_list)
            ELSE IF ~conn
            THEN sync_push_loop(Tail(targets), flds, objs, conn, raise_at, success_list)
            ELSE LET t == IF book.category # None
                          THEN get_or_create_subfolder(flds, book.category)
                          ELSE [folders |-> flds, id |-> Root]
                 IN IF raise_at = 1
                    THEN [folders |-> t.folders, objects |-> objs, success |-> success_list,
                          raised |-> TRUE]
                    ELSE sync_push_loop(Tail(targets), t.folders,
                                        create_file(objs, book.local_path.name, t.id), conn,
                                        raise_at - 1, Append(success_list, book.name))

\* SyncService.sync_push: the targets
sync_push_targets(library, book_name, all) ==
    LET Named(b) == b.name = book_name
        Up(b) == is_local_only(b)
    IN IF book_name # None THEN SelectSeq(library, Named)
       ELSE IF all THEN SelectSeq(library, Up)
       ELSE <<>>

\* SyncService.sync_push(book_name, all); raise_at = k: the k-th create call raises.
\* DriveService.list_books needs the service and the root_folder_id, upload_book only the
\* service: without a root_folder_id the first request names the parent None and raises
SyncPush ==
    /\ pc = "idle"
    /\ ~ran
    /\ ran' = TRUE
    /\ \E book_name \in Names \cup {None}, service \in BOOLEAN :
          LET conn == service /\ config.root_folder_id
              library == get_library(LocalService_list_books(LocalTree),
                                     DriveService_list_books(folders, objects, conn))
              targets == sync_push_targets(library, book_name, TRUE)
          IN \E raise_at \in 0..Len(targets) :
                LET r == IF service /\ ~config.root_folder_id /\ targets # <<>>
                         THEN [folders |-> folders, objects |-> objects, success |-> <<>>,
                               raised |-> TRUE]
                         ELSE sync_push_loop(targets, folders, objects, conn, raise_at, <<>>)
                IN /\ folders' = r.folders
                   /\ objects' = r.objects
                   /\ out' = [NoOut EXCEPT !.cmd = "sync_push",
                                 !.path = Path(None, book_name),
                                 !.listing = DriveService_list_books(folders, objects, conn),
                                 !.to_upload = targets,
                                 !.success = r.success,
                                 !.result = IF r.raised THEN "raised" ELSE "returned"]
    /\ UNCHANGED <<local, db, pc, queue, batchCat, sync, config>>

\* DriveService.download_book catches what the Drive call raises and returns False
\* SyncService.sync_pull, lines 70-73: local_path / (category or "General") / name
sync_pull_target_path(book) ==
    Path(IF book.category # None THEN book.category ELSE "General", book.name)

RECURSIVE sync_pull_loop(_, _, _, _, _, _)
sync_pull_loop(targets, loc, conn, failing, k, success_list) ==
    IF targets = <<>> THEN [local |-> loc, success |-> success_list]
    ELSE LET book == Head(targets)
             target_path == sync_pull_target_path(book)
         IN IF book.drive_id = NoDriveId
            THEN sync_pull_loop(Tail(targets), loc, conn, failing, k + 1, success_list)
            ELSE IF conn /\ k \notin failing
            THEN sync_pull_loop(Tail(targets), loc \cup {target_path}, conn, failing, k + 1,
                                Append(success_list, book.name))
            ELSE sync_pull_loop(Tail(targets), loc, conn, failing, k + 1, success_list)

\* SyncService.sync_pull: the targets
sync_pull_targets(library, book_name, all) ==
    LET Named(b) == b.name = book_name
        Down(b) == is_drive_only(b)
    IN IF book_name # None THEN SelectSeq(library, Named)
       ELSE IF all THEN SelectSeq(library, Down)
       ELSE <<>>

\* SyncService.sync_pull(book_name, all); failing: the targets whose download raises
SyncPull ==
    /\ pc = "idle"
    /\ ~ran
    /\ ran' = TRUE
    /\ \E book_name \in Names \cup {None}, conn \in DriveAccess(config) :
          LET library == get_library(LocalService_list_books(LocalTree),
                                     DriveService_list_books(folders, objects, conn))
              \* line 68: without a local_path every target is passed over
              targets == IF config.local_path
                         THEN sync_pull_targets(library, book_name, TRUE)
                         ELSE <<>>
          IN \E failing \in SUBSET (1..Len(targets)) :
                LET r == sync_pull_loop(targets, local, conn, failing, 1, <<>>)
                IN /\ local' = r.local
                   /\ out' = [NoOut EXCEPT !.cmd = "sync_pull",
                                 !.path = Path(None, book_name),
                                 !.success = r.success,
                                 !.result = "returned"]
    /\ UNCHANGED <<folders, objects, db, pc, queue, batchCat, sync, config>>

(***************************************************************************)
(* Read-only commands.                                                     *)
(***************************************************************************)
GetLibrary ==
    /\ pc = "idle"
    /\ \E conn \in ReadConn \cap DriveAccess(config) :
          out' = [NoOut EXCEPT !.cmd = "get_library",
                     !.listing = DriveService_list_books(folders, objects, conn),
                     !.library = get_library(LocalService_list_books(LocalTree),
                                             DriveService_list_books(folders, objects, conn))]
    /\ UNCHANGED <<local, folders, objects, db, pc, queue, batchCat, ran, sync, config>>

GetDiff ==
    /\ pc = "idle"
    /\ \E conn \in ReadConn \cap DriveAccess(config) :
          LET drive_books == DriveService_list_books(folders, objects, conn)
              library == get_library(LocalService_list_books(LocalTree), drive_books)
              d == get_diff(library)
          IN out' = [NoOut EXCEPT !.cmd = "get_diff", !.listing = drive_books,
                        !.library = library,
                        !.to_upload = d.to_upload, !.to_download = d.to_download]
    /\ UNCHANGED <<local, folders, objects, db, pc, queue, batchCat, ran, sync, config>>

ListCmd ==
    /\ pc = "idle"
    /\ \E conn \in ReadConn \cap DriveAccess(config) :
          LET drive_books == list_drive_files(folders, objects, conn)
          IN out' = [NoOut EXCEPT !.cmd = "list", !.listing = drive_books,
                        !.library = list_merge(list_local_files(LocalTree), drive_books)]
    /\ UNCHANGED <<local, folders, objects, db, pc, queue, batchCat, ran, sync, config>>

(***************************************************************************)
(* main.py mark.                                                           *)
(***************************************************************************)
\* the words given to --status
StatusInputs == {"reading", "finished", "new", "READING", "done"}

\* f"[{status}] Updated via Bookshell", as tokens
new_desc(status) == <<"[" \o status \o "]", "Updated via Bookshell">>

\* a variant of update_description that adds the text to the description that is there
update_description_append(objs, file_id, description) ==
    [objs EXCEPT ![file_id].description = @ \o description]

\* core/drive_logic.py update_description: files().update(body={'description': ...})
update_description(objs, file_id, description) ==
    [objs EXCEPT ![file_id].description = description]

MarkEffect(res, objs, listing, id, st) ==
    [result |-> res, objects |-> objs, listing |-> listing, drive_id |-> id, status |-> st]

\* a variant of mark that does not look at the status word
mark_any_status(book_name, status0, flds, objs, conn, xfer) ==
    LET status == lower(status0)
        drive_books == list_drive_files(flds, objs, conn)
        found == ByName(drive_books, book_name)
    IN IF found = <<>> THEN MarkEffect("not_found", objs, drive_books, NoDriveId, status)
       ELSE IF xfer = "raise"
       THEN MarkEffect("raised", objs, drive_books, found[1].id, status)
       ELSE MarkEffect("marked", update_description(objs, found[1].id, new_desc(status)),
                       drive_books, found[1].id, status)

\* main.py mark(book_name, status)
mark(book_name, status0, flds, objs, conn, xfer) ==
    LET status == lower(status0)
        drive_books == list_drive_files(flds, objs, conn)
        found == ByName(drive_books, book_name)
    IN IF status \notin Statuses THEN MarkEffect("invalid_status", objs, <<>>, NoDriveId, status)
       ELSE IF found = <<>> THEN MarkEffect("not_found", objs, drive_books, NoDriveId, status)
       ELSE IF xfer = "raise"
       THEN MarkEffect("raised", objs, drive_books, found[1].id, status)
       ELSE MarkEffect("marked", update_description(objs, found[1].id, new_desc(status)),
                       drive_books, found[1].id, status)

Mark ==
    /\ pc = "idle"
    /\ ~ran
    /\ ran' = TRUE
    /\ \E book_name \in Names, status \in StatusInputs, conn \in DriveAccess(config), xfer \in Xfers :
          LET e == mark(book_name, status, folders, objects, conn, xfer)
          IN /\ objects' = e.objects
             /\ out' = [NoOut EXCEPT !.cmd = "mark", !.path = Path(None, book_name),
                           !.result = e.result, !.listing = e.listing,
                           !.drive_id = e.drive_id, !.status = e.status]
    /\ UNCHANGED <<local, folders, db, pc, queue, batchCat, sync, config>>

(***************************************************************************)
(* Properties.                                                             *)
(***************************************************************************)
\* the names in the local listing
LocalNames == {p.name : p \in LocalTree}

\* the Drive files that carry name n
IdsNamed(objs, n) == {i \in 1..Len(objs) : objs[i].name = n}

\* the category a Drive file is listed under: the name of its folder, None in the root
RemoteCat(flds, objs, i) ==
    IF Root \in objs[i].parents THEN None
    ELSE flds[CHOOSE k \in objs[i].parents : TRUE]

\* the names of a sequence of entries
NamesOf(bs) == {bs[i].name : i \in 1..Len(bs)}

\* the names of the Drive listing a read-only command worked on
ListedNames == NamesOf(out.listing)

NameRank(n) == CHOOSE i \in 1..Len(NameOrder) : NameOrder[i] = n

InNameOrder(bs) == \A i, j \in 1..Len(bs) : i < j => NameRank(bs[i].name) < NameRank(bs[j].name)

\* the commands of the CLI that push one file
IsCliPush(o) == o.cmd \in {"push", "push_all_item"}

\* C1: the merged catalog (SyncService.get_library and the merge of the CLI list command)
\* holds exactly one entry for every name of the local or the remote listing, and no
\* entry for another name, also when several remote files carry one name.
C1_OneEntryPerName ==
    /\ out.cmd \in {"get_library", "get_diff"} =>
          \A n \in Names :
             Cardinality({i \in 1..Len(out.library) : out.library[i].name = n})
                = IF n \in LocalNames \cup ListedNames THEN 1 ELSE 0
    /\ out.cmd = "list" => DOMAIN out.library = LocalNames \cup ListedNames

\* a merge ran on a remote listing that holds one name twice, beside another name
C1_Witness ==
    /\ out.cmd = "get_library"
    /\ \E i, j \in 1..Len(out.listing) : i # j /\ out.listing[i].name = out.listing[j].name
    /\ Cardinality(LocalNames \cup ListedNames) = 2
    /\ Len(out.library) = 2

\* C2: every entry of a merged catalog is exactly one of synced, local-only, remote-only,
\* and none lacks both the local path and the remote id.
C2_ExactlyOneSyncState ==
    out.cmd \in {"get_library", "get_diff"} =>
       \A i \in 1..Len(out.library) :
          LET b == out.library[i]
          IN /\ Cardinality({k \in 1..3 : <<is_synced(b), is_local_only(b), is_drive_only(b)>>[k]}) = 1
             /\ ~(b.local_path = NoPath /\ b.drive_id = NoDriveId)

\* a merged catalog with a synced entry beside a remote-only entry
C2_Witness ==
    /\ out.cmd = "get_library"
    /\ \E i, j \in 1..Len(out.library) :
          is_synced(out.library[i]) /\ is_drive_only(out.library[j])

\* C3: get_diff returns as to_upload exactly the merged entries with a local path and no
\* remote id, as to_download exactly those with a remote id and no local path, both in
\* name order; the lists are disjoint and a name of both listings is in neither.
C3_DiffIsPresenceDiff ==
    out.cmd = "get_diff" =>
       LET up == out.to_upload
           down == out.to_download
           OnlyLocal(b) == b.local_path # NoPath /\ b.drive_id = NoDriveId
           OnlyRemote(b) == b.drive_id # NoDriveId /\ b.local_path = NoPath
       IN /\ up = SelectSeq(out.library, OnlyLocal)
          /\ down = SelectSeq(out.library, OnlyRemote)
          /\ NamesOf(up) = LocalNames \ ListedNames
          /\ NamesOf(down) = ListedNames \ LocalNames
          /\ InNameOrder(up) /\ InNameOrder(down)
          /\ NamesOf(up) \cap NamesOf(down) = {}

\* a diff of a library with a name on both sides and a name that is local only
C3_Witness ==
    /\ out.cmd = "get_diff"
    /\ LocalNames \cap ListedNames # {}
    /\ Len(out.to_upload) = 1

\* the name a single-file push step is about; None when the step pushes no single file
PushedName(o) ==
    IF IsCliPush(o) \/ o.cmd = "sync_push" THEN o.path.name ELSE None

\* exactly one Drive file carries name n, and it is filed under category c
OnlyCounterpartIn(n, c) ==
    /\ Cardinality(IdsNamed(objects, n)) = 1
    /\ \A i \in IdsNamed(objects, n) : RemoteCat(folders, objects, i) = c

\* the step pushes one file whose only Drive counterpart is filed under the category the
\* file is pushed with: the resolved category for the CLI, the folder of the one local
\* file of that name for SyncService.sync_push
HasMatchingCounterpart(o) ==
    \/ IsCliPush(o) /\ OnlyCounterpartIn(o.path.name, o.category)
    \/ /\ o.cmd = "sync_push"
       /\ Cardinality({p \in local : p.name = o.path.name}) = 1
       /\ \A p \in local : p.name = o.path.name => OnlyCounterpartIn(p.name, p.cat)

\* C4: a push of a single file whose only Drive counterpart is filed under the same
\* category leaves the Drive as it is, from the CLI push and from
\* SyncService.sync_push(book_name) alike: nothing is uploaded or moved.
C4_MatchingPushIsNoOp ==
    [][HasMatchingCounterpart(out') => (objects' = objects /\ folders' = folders)]_vars

\* C4 for the CLI alone: push and the items of push --all
C4_CliMatchingPushIsNoOp ==
    [][(IsCliPush(out') /\ HasMatchingCounterpart(out'))
          => (objects' = objects /\ folders' = folders /\ db' = db
              /\ out'.result \in {"already_exists", "upload_failed"})]_vars

\* a CLI push found its counterpart in the same category and reported that it exists
C4_CliWitness ==
    /\ out.cmd = "push"
    /\ out.result = "already_exists"
    /\ out.prompts = <<>>
    /\ HasMatchingCounterpart(out)

\* the ids a duplicate prompt offers
OfferedIds(prompt) == {prompt.choices[i].id : i \in 1..Len(prompt.choices)}

\* C5: when several Drive files carry the name of the pushed file, the push offers all of
\* them for a choice and uploads nothing; no copy is picked without the choice, and a
\* skipped choice changes nothing.
C5_DuplicatesAreSurfaced ==
    [][(PushedName(out') # None
        /\ PushedName(out') \in LocalNames
        /\ Cardinality(IdsNamed(objects, PushedName(out'))) > 1)
          => /\ Len(objects') = Len(objects)
             /\ objects' # objects =>
                   /\ out'.prompts # <<>>
                   /\ out'.prompts[1].kind = "duplicate"
                   /\ OfferedIds(out'.prompts[1]) = IdsNamed(objects, PushedName(out'))
             /\ out'.result = "dup_skipped" =>
                   objects' = objects /\ folders' = folders /\ db' = db]_vars

\* C5 for the CLI alone, with the Drive listing at hand: the prompt lists every copy
C5_CliDuplicatesAreSurfaced ==
    [][(IsCliPush(out')
        /\ Cardinality(IdsNamed(objects, PushedName(out'))) > 1)
          => /\ Len(objects') = Len(objects)
             /\ out'.result # "upload_failed" =>
                   /\ out'.prompts # <<>>
                   /\ out'.prompts[1].kind = "duplicate"
                   /\ OfferedIds(out'.prompts[1]) = IdsNamed(objects, PushedName(out'))
             /\ out'.result \in {"dup_skipped", "upload_failed"} =>
                   objects' = objects /\ folders' = folders /\ db' = db]_vars

\* a CLI push met two copies and the user skipped the choice
C5_CliWitness ==
    /\ out.cmd = "push"
    /\ out.result = "dup_skipped"
    /\ Cardinality(IdsNamed(objects, out.path.name)) = 2

\* the category a comparison that treats no category as "General" works on
Normalized(c) == IF c = None THEN "general" ELSE lower(c)

HasConflictPrompt(prompts) == \E k \in 1..Len(prompts) : prompts[k].kind = "conflict"

\* the only Drive file named n is filed under a category that equals c after normalization
OnlyCounterpartMatches(n, c) ==
    /\ Cardinality(IdsNamed(objects, n)) = 1
    /\ \A i \in IdsNamed(objects, n) : Normalized(RemoteCat(folders, objects, i)) = Normalized(c)

\* C6: categories are compared without regard to case and with no category standing for
\* "General": a local file without category and a Drive file in "General" raise no
\* category conflict, and push --all does not select such a file.
C6_NormalizedCategoryMatch ==
    [][/\ (IsCliPush(out') /\ OnlyCounterpartMatches(out'.path.name, out'.category))
            => ~HasConflictPrompt(out'.prompts)
       /\ (out'.cmd = "push_all" /\ out'.connected)
            => \A i \in 1..Len(out'.to_upload) :
                  LET path == out'.to_upload[i].path
                  IN ~OnlyCounterpartMatches(path.name, path.cat)]_vars

\* C6 without the None-"General" equivalence: a difference of case alone is no conflict
C6_CaseInsensitiveMatch ==
    [][(IsCliPush(out')
        /\ Cardinality(IdsNamed(objects, out'.path.name)) = 1
        /\ out'.category # None
        /\ \A i \in IdsNamed(objects, out'.path.name) :
              /\ RemoteCat(folders, objects, i) # None
              /\ lower(RemoteCat(folders, objects, i)) = lower(out'.category))
          => ~HasConflictPrompt(out'.prompts)]_vars

\* a push of a file in "general" met its counterpart in "General" and reported that it exists
C6_CaseWitness ==
    /\ out.cmd = "push"
    /\ out.result = "already_exists"
    /\ out.category = "general"
    /\ \E i \in IdsNamed(objects, out.path.name) : RemoteCat(folders, objects, i) = "General"

\* the folder a document of category c belongs to, given the folders before the step:
\* the root without category, the first folder of that name, or the folder the step adds
TargetFolder(flds, c) ==
    IF c = None THEN Root
    ELSE IF FolderNamed(flds, c) # {}
    THEN CHOOSE k \in FolderNamed(flds, c) : \A j \in FolderNamed(flds, c) : k <= j
    ELSE Len(flds) + 1

\* the folders after a step that needed the folder of category c
FoldersWith(flds, c) ==
    IF c = None \/ FolderNamed(flds, c) # {} THEN flds ELSE Append(flds, c)

\* C7: when the pushed file has exactly one Drive counterpart, in another category, and
\* the conflict is answered with "use local", the Drive file ends up in the folder of
\* the local category (created when missing, the root without category) and nowhere
\* else, keeps its id, and no Drive file is created.
C7_UseLocalMovesCounterpart ==
    [][(IsCliPush(out') /\ out'.result = "moved"
        /\ Cardinality(IdsNamed(objects, out'.path.name)) = 1)
          => LET i == CHOOSE k \in IdsNamed(objects, out'.path.name) : TRUE
             IN /\ Len(objects') = Len(objects)
                /\ objects'[i].name = out'.path.name
                /\ objects'[i].parents = {TargetFolder(folders, out'.category)}
                /\ folders' = FoldersWith(folders, out'.category)
                /\ out'.category # None => folders'[TargetFolder(folders, out'.category)] = out'.category
                /\ \A k \in 1..Len(objects) : k # i => objects'[k] = objects[k]
                /\ db' = db]_vars

\* a push answered with "use local" moved the only counterpart into the folder "math",
\* which the move created
C7_Witness ==
    /\ out.cmd = "push"
    /\ out.result = "moved"
    /\ out.category = "math"
    /\ Len(out.prompts) = 1
    /\ folders = <<"math">>
    /\ \E i \in IdsNamed(objects, out.path.name) : objects[i].parents = {1}

\* C8: a push of a file whose name no Drive file carries, when the upload returns an id,
\* adds exactly one Drive file of that name, in the folder of the file's category (added
\* only when no folder of that name exists) or in the root without category; an upload
\* that returns no id adds none.
C8_FreshUploadCreatesOneObject ==
    [][/\ (IsCliPush(out') /\ IdsNamed(objects, out'.path.name) = {})
            => IF out'.result = "uploaded"
               THEN /\ objects' = Append(objects,
                                         [name |-> out'.path.name,
                                          parents |-> {TargetFolder(folders, out'.category)},
                                          description |-> <<>>])
                    /\ folders' = FoldersWith(folders, out'.category)
                    /\ out'.drive_id = Len(objects')
               ELSE objects' = objects
       /\ (out'.cmd = "sync_push" /\ out'.path.name # None
           /\ IdsNamed(objects, out'.path.name) = {})
            => IF out'.success # <<>>
               THEN \E p \in local :
                       /\ p.name = out'.path.name
                       /\ objects' = Append(objects,
                                            [name |-> p.name,
                                             parents |-> {TargetFolder(folders, p.cat)},
                                             description |-> <<>>])
                       /\ folders' = FoldersWith(folders, p.cat)
               ELSE objects' = objects]_vars

\* a push uploaded a file into a folder that was there before, beside another Drive file
C8_Witness ==
    /\ out.cmd = "push"
    /\ out.result = "uploaded"
    /\ out.category = "math"
    /\ folders = <<"math">>
    /\ Len(objects) = 2
    /\ objects[2].name = out.path.name
    /\ objects[2].parents = {1}
    /\ objects[1].parents = {1}

\* C9: a fresh upload of a file without category saves a row whose category is None, not
\* "General", puts the Drive file in the root and creates no folder.
C9_NoCategoryStaysNone ==
    [][(IsCliPush(out') /\ out'.result = "uploaded" /\ out'.category = None)
          => /\ db' = db (+) SetToBag({[title |-> out'.path.name, drive_id |-> out'.drive_id,
                                        category |-> None, local_path |-> out'.path]})
             /\ folders' = folders
             /\ objects'[out'.drive_id].parents = {Root}
             /\ \A k \in 1..Len(folders') : folders'[k] # "General"
                                            \/ k \in 1..Len(folders)]_vars

\* a push uploaded a file without category and saved its row
C9_Witness ==
    /\ out.cmd = "push"
    /\ out.result = "uploaded"
    /\ out.category = None
    /\ out.path.cat = None
    /\ BagCardinality(db) = 1
    /\ \A r \in BagToSet(db) : r.category = None /\ r.drive_id = out.drive_id

\* the rows of the books table that carry a title
RowsTitled(rows, n) == {r \in BagToSet(rows) : r.title = n}

\* C10: the books table gets a row for a name exactly when the transfer of that name
\* succeeded, with the Drive id, the local path and the category; a failed transfer
\* leaves the table as it was. This is asked of the CLI commands and of
\* SyncService.sync_push and sync_pull.
C10_MappingIffTransferSucceeded ==
    [][/\ out'.cmd \in {"push", "push_all_item", "pull", "pull_all_item"}
            => IF out'.result \in {"uploaded", "downloaded", "overwritten"}
               THEN db' = db (+) SetToBag({[title |-> out'.path.name,
                                            drive_id |-> out'.drive_id,
                                            category |-> out'.category,
                                            local_path |-> out'.path]})
               ELSE db' = db
       /\ out'.cmd \in {"sync_push", "sync_pull"}
            => \A n \in Names :
                  IF \E k \in 1..Len(out'.success) : out'.success[k] = n
                  THEN RowsTitled(db', n) # {}
                  ELSE RowsTitled(db', n) = RowsTitled(db, n)]_vars

\* C10 for the CLI commands alone
C10_CliMappingIffTransferSucceeded ==
    [][out'.cmd \in {"push", "push_all_item", "pull", "pull_all_item"}
            => IF out'.result \in {"uploaded", "downloaded", "overwritten"}
               THEN /\ db' = db (+) SetToBag({[title |-> out'.path.name,
                                               drive_id |-> out'.drive_id,
                                               category |-> out'.category,
                                               local_path |-> out'.path]})
                    /\ out'.drive_id # NoDriveId
               ELSE db' = db]_vars

\* a pull downloaded a file and saved its row
C10_CliWitness ==
    /\ out.cmd = "pull"
    /\ out.result = "downloaded"
    /\ out.path \in local
    /\ \E r \in BagToSet(db) : r.title = out.path.name /\ r.drive_id = out.drive_id

\* C11: in push --all and pull --all a transfer that fails (no id, False, or a raised
\* error) is the failure of its item alone: the remaining candidates stay queued and
\* the batch goes on.
C11_ItemFailureKeepsBatch ==
    [][out'.cmd \in {"push_all_item", "pull_all_item"}
          => (pc' = pc /\ queue' = Tail(queue))]_vars

\* C11 for the failures that raise nothing: the transfer returned no id or False
C11_QuietFailureKeepsBatch ==
    [][(out'.cmd \in {"push_all_item", "pull_all_item"}
        /\ out'.result \in {"upload_failed", "download_failed"})
          => (pc' = pc /\ queue' = Tail(queue))]_vars

\* an item of a batch failed quietly and another candidate is still queued
C11_QuietWitness ==
    /\ out.cmd = "push_all_item"
    /\ out.result = "upload_failed"
    /\ pc = "push_all"
    /\ queue # <<>>

\* C12: in pull --all an item whose destination path holds a file is skipped before any
\* transfer: nothing is downloaded over the file and no row is written, also when the
\* file was put there by an earlier item of the same batch.
C12_PullAllSkipsExisting ==
    [][(out'.cmd = "pull_all_item" /\ out'.path \in local)
          => (out'.result = "skipped" /\ db' = db /\ local' = local)]_vars

\* C13: sync --all runs the whole push pass before the pull pass.  While the push pass
\* runs nothing is downloaded and no step of pull is taken; the pull pass begins only
\* when no push candidate is left; a push pass left by a refusal or an error is followed
\* by no pull pass.
C13_PushPassBeforePullPass ==
    [][/\ (sync = "push"
           => (local' = local /\ out'.cmd \notin {"pull_all", "pull_all_item"}))
       /\ ((sync' = "pull" /\ sync # "pull")
           => (queue = <<>> /\ out'.result \in {"completed", "all_synced"}))
       /\ (((sync = "push" \/ out'.cmd = "sync_all") /\ out'.result \in {"aborted", "raised"})
           => (sync' = "aborted" /\ pc' = "idle"))
       /\ (sync = "aborted"
           => (local' = local /\ db' = db /\ sync' = "aborted"
               /\ out'.cmd \notin {"pull_all", "pull_all_item"}))]_vars

\* C13, the case: a sync --all whose push pass uploaded and whose pull pass then
\* downloaded, both recorded
C13_Witness ==
    /\ sync = "done"
    /\ out.cmd = "pull_all"
    /\ out.result = "completed"
    /\ \E r1, r2 \in BagToSet(db) : r1.title # r2.title /\ r2.local_path \in local

\* C13, the other case: a push pass that an error left, after an upload
C13_AbortWitness ==
    /\ sync = "aborted"
    /\ out.cmd = "push_all_item"
    /\ out.result = "raised"
    /\ db # EmptyBag

\* C17: every drive_id stored in the books table is the id of a Drive object of the
\* title of its row.
C17_StoredIdsWereIssued ==
    \A r \in BagToSet(db) :
       /\ r.drive_id \in 1..Len(objects)
       /\ objects[r.drive_id].name = r.title

\* C18: with no local root or no remote root configured, a push, pull or sync command
\* stops at once with an error and uploads nothing, downloads nothing and writes no row.
C18_NotConfiguredAborts ==
    [][((~config.local_path \/ ~config.root_folder_id)
          /\ out'.cmd \in {"push", "push_all", "push_all_item", "pull", "pull_all",
                           "pull_all_item", "sync_all"})
          => (/\ UNCHANGED <<local, folders, objects, db>>
              /\ pc' = "idle"
              /\ out'.result = "raised")]_vars

\* C18, the part on effects alone: such a command uploads nothing, downloads nothing
\* and writes no row
C18_NotConfiguredNoEffect ==
    [][((~config.local_path \/ ~config.root_folder_id)
          /\ out'.cmd \in {"push", "push_all", "push_all_item", "pull", "pull_all",
                           "pull_all_item", "sync_all"})
          => UNCHANGED <<local, folders, objects, db>>]_vars

\* C16: the books table holds at most one row for a title, whatever was saved.
C16_OneRowPerTitle ==
    \A n \in Names :
       \A r1, r2 \in RowsTitled(db, n) : r1 = r2 /\ CopiesIn(r1, db) = 1

\* C16, the delete: after delete_book_by_name no row of that title is left and the rows
\* of other titles are as before
C16_DeleteRemovesTitle ==
    \A n \in Names :
       LET rows == delete_book_by_name(db, n)
       IN /\ RowsTitled(rows, n) = {}
          /\ \A m \in Names \ {n} : \A r \in RowsTitled(db, m) :
                r \in DOMAIN rows /\ rows[r] = db[r]

\* C20: get_or_create_subfolder returns the folder of the name when there is one and
\* creates nothing: the root never holds two folders of one name, and a step that needed
\* a folder which was there leaves the folders as they were.
C20_OneFolderPerName ==
    /\ \A i, j \in 1..Len(folders) : folders[i] = folders[j] => i = j
    /\ \A c \in Cats :
          LET first == get_or_create_subfolder(folders, c)
              again == get_or_create_subfolder(first.folders, c)
          IN /\ again.id = first.id
             /\ again.folders = first.folders
             /\ first.folders[first.id] = c
             /\ FolderNamed(folders, c) # {} => first.folders = folders

\* push --all put two files into the folder "math": the first item created it, the
\* second found it
C20_Witness ==
    /\ out.cmd = "push_all_item"
    /\ out.result = "uploaded"
    /\ folders = <<"math">>
    /\ Len(objects) = 2
    /\ \A i \in 1..2 : objects[i].parents = {1}
    /\ BagCardinality(db) = 2

(***************************************************************************)
(* Descriptions and statuses: a Drive folder whose files carry free text.  *)
(***************************************************************************)
\* the tokens of the descriptions users write: the two markers and other text
UserTokens == {"[reading]", "[finished]", "note"}

\* the descriptions of at most MaxDescLen tokens, no token twice; <<>> is no description
Descriptions ==
    UNION {{d \in [1..k -> UserTokens] : \A i, j \in 1..k : d[i] = d[j] => i = j}
           : k \in 0..MaxDescLen}

\* the root of the Drive folder holds one file for each name of a set, with a description
StatusInit ==
    /\ local = {}
    /\ folders = <<>>
    /\ \E ns \in (SUBSET Names) \ {{}} :
          LET In(n) == n \in ns
              listed == SelectSeq(NameOrder, In)
          IN \E ds \in [1..Len(listed) -> Descriptions] :
                objects = [i \in 1..Len(listed) |->
                              [name |-> listed[i], parents |-> {Root}, description |-> ds[i]]]
    /\ db = EmptyBag
    /\ pc = "idle"
    /\ queue = <<>>
    /\ batchCat = None
    /\ ran = FALSE
    /\ out = NoOut
    /\ sync = "none"
    /\ config = [local_path |-> TRUE, root_folder_id |-> TRUE]

StatusNext ==
    \/ Mark
    \/ GetLibrary
    \/ ListCmd

StatusSpec == StatusInit /\ [][StatusNext]_vars

\* the status a description stands for: the "[reading]" marker wins over "[finished]"
StatusOf(desc) ==
    IF "[reading]" \in {desc[i] : i \in 1..Len(desc)} THEN "reading"
    ELSE IF "[finished]" \in {desc[i] : i \in 1..Len(desc)} THEN "finished"
    ELSE "new"

\* C14: after mark(name, s) went through, the description of the marked Drive file is
\* exactly "[s] Updated via Bookshell", whatever it was before, the other files are as
\* they were, and a fresh Drive listing (of DriveService and of the CLI) gives that file
\* the status s.
C14_MarkRoundTrip ==
    [][(out'.cmd = "mark" /\ out'.result = "marked")
          => LET id == out'.drive_id
                 st == out'.status
                 books == DriveService_list_books(folders', objects', TRUE)
                 files == list_drive_files(folders', objects', TRUE)
             IN /\ st \in Statuses
                /\ objects[id].name = out'.path.name
                /\ objects'[id].description = <<"[" \o st \o "]", "Updated via Bookshell">>
                /\ \A k \in 1..Len(objects) :
                      k # id => objects'[k] = objects[k]
                /\ Len(objects') = Len(objects)
                /\ \A k \in 1..Len(books) : books[k].drive_id = id => books[k].status = st
                /\ \A k \in 1..Len(files) :
                      files[k].id = id => status_code(files[k].description) = st
                /\ \E k \in 1..Len(books) : books[k].drive_id = id]_vars

\* a file described as "note [reading]" was marked finished
C14_Witness ==
    /\ out.cmd = "mark"
    /\ out.result = "marked"
    /\ out.status = "finished"
    /\ \E k \in 1..Len(out.listing) :
          /\ out.listing[k].id = out.drive_id
          /\ out.listing[k].description = <<"note", "[reading]">>
    /\ objects[out.drive_id].description = <<"[finished]", "Updated via Bookshell">>

\* C15: a description decodes to reading when it holds "[reading]", to finished when it
\* holds "[finished]" and not "[reading]", to new otherwise (no description included),
\* in the listing of DriveService and in the merge of the CLI list alike.
C15_StatusDecoding ==
    /\ \A i \in 1..Len(objects) :
          /\ DecodeStatus(objects[i].description) = StatusOf(objects[i].description)
          /\ status_code(objects[i].description) = StatusOf(objects[i].description)
    /\ out.cmd = "get_library" =>
          \A k \in 1..Len(out.listing) :
             out.listing[k].status = StatusOf(objects[out.listing[k].drive_id].description)
    /\ out.cmd = "list" =>
          \A k \in 1..Len(out.listing) :
             out.library[out.listing[k].name].status = StatusOf(out.listing[k].description)

\* the two listings ran on a folder with a file that carries both markers and a file
\* without description
C15_Witness ==
    /\ out.cmd \in {"get_library", "list"}
    /\ Len(out.listing) = 2
    /\ objects[1].description = <<"[finished]", "[reading]">>
    /\ objects[2].description = <<>>

LocalBooks == LocalService_list_books(LocalTree)

\* the entries of a listing that carry name n, and the last of them
Named(bs, n) == LET Is(b) == b.name = n IN SelectSeq(bs, Is)

LastNamed(bs, n) == Named(bs, n)[Len(Named(bs, n))]

\* the categories the Drive listing holds for name n
ListedCats(n) == {Named(out.listing, n)[i].category : i \in 1..Len(Named(out.listing, n))}

\* C21: an entry of the merged catalog whose name is in both listings keeps the category
\* of the local entry when that has one, and carries a category of the Drive listing
\* only when the local entry has none; the list command shows the category the same way.
C21_LocalCategoryWins ==
    /\ out.cmd \in {"get_library", "get_diff"} =>
          \A i \in 1..Len(out.library) :
             LET e == out.library[i]
                 l == LastNamed(LocalBooks, e.name)
             IN e.name \in LocalNames \cap ListedNames =>
                   IF l.category # None THEN e.category = l.category
                   ELSE e.category \in ListedCats(e.name)
    /\ out.cmd = "list" =>
          \A n \in LocalNames \cap ListedNames :
             LET l == LastNamed(LocalBooks, n)
             IN IF l.category # None THEN display_cat(out.library[n]) = l.category
                ELSE display_cat(out.library[n]) \in ListedCats(n)

\* a merge of a name filed under "math" locally and under "General" on Drive
C21_Witness ==
    /\ out.cmd = "get_library"
    /\ \E i \in 1..Len(out.library) :
          /\ out.library[i].name \in LocalNames \cap ListedNames
          /\ LastNamed(LocalBooks, out.library[i].name).category = "math"
          /\ ListedCats(out.library[i].name) = {"General"}
          /\ out.library[i].category = "math"

\* the other case of C21: the local file lies in the root, the entry shows "General"
C21_RemoteWitness ==
    /\ out.cmd = "get_library"
    /\ \E i \in 1..Len(out.library) :
          /\ out.library[i].name \in LocalNames \cap ListedNames
          /\ LastNamed(LocalBooks, out.library[i].name).category = None
          /\ out.library[i].category = "General"

\* C22: an entry of the merged catalog whose name is in both listings carries the path of
\* the local entry with the drive_id and the status of one Drive entry of that name (the
\* last listed); an entry whose name is on Drive only has no local path and holds
\* nothing but fields of Drive entries of that name (it is that entry when the name is
\* listed once); an entry whose name is local only is the local entry, without drive_id
\* and with status new.
C22_MergedFields ==
    out.cmd \in {"get_library", "get_diff"} =>
       \A i \in 1..Len(out.library) :
          LET e == out.library[i]
              n == e.name
              rs == Named(out.listing, n)
          IN /\ (n \in LocalNames /\ n \in ListedNames) =>
                   /\ e.local_path = LastNamed(LocalBooks, n).local_path
                   /\ e.drive_id = LastNamed(out.listing, n).drive_id
                   /\ e.status = LastNamed(out.listing, n).status
             /\ (n \notin LocalNames /\ n \in ListedNames) =>
                   /\ e.local_path = NoPath
                   /\ e.drive_id = LastNamed(out.listing, n).drive_id
                   /\ e.status = LastNamed(out.listing, n).status
                   /\ e.category \in ListedCats(n)
                   /\ e.description = rs[1].description
                   /\ Len(rs) = 1 => e = rs[1]
             /\ (n \in LocalNames /\ n \notin ListedNames) =>
                   /\ e = LastNamed(LocalBooks, n)
                   /\ e.drive_id = NoDriveId
                   /\ e.status = "new"

\* a merge that gave a local file the id and the status of a Drive file marked as
\* reading, beside a name that only Drive holds
C22_Witness ==
    /\ out.cmd = "get_library"
    /\ \E i, j \in 1..Len(out.library) :
          /\ out.library[i].name \in LocalNames \cap ListedNames
          /\ out.library[i].status = "reading"
          /\ out.library[i].local_path \in local
          /\ out.library[i].drive_id \in IdsNamed(objects, out.library[i].name)
          /\ out.library[j].name \in ListedNames \ LocalNames
          /\ out.library[j].local_path = NoPath

\* two catalogs that hold the same names and agree, name by name, on local path,
\* drive_id, category and status
SameCatalog(a, b) ==
    /\ NamesOf(a) = NamesOf(b)
    /\ Len(a) = Len(b)
    /\ \A i \in 1..Len(a) :
          /\ a[i].name = b[i].name
          /\ a[i].local_path = b[i].local_path
          /\ a[i].drive_id = b[i].drive_id
          /\ a[i].category = b[i].category
          /\ a[i].status = b[i].status

\* C23: the merge is idempotent: run again on the pair of listings it was run on, it
\* gives a catalog with the same names and the same local path, drive_id, category and
\* status for each, also when the second run works on the Book objects that the first
\* run changed in place.
C23_MergeIdempotent ==
    out.cmd \in {"get_library", "get_diff"} =>
       /\ SameCatalog(get_library(LocalBooks, out.listing), out.library)
       /\ SameCatalog(get_library_again(LocalBooks, out.listing), out.library)

\* a merge that changed a local Book in place (it got its drive_id and its category from
\* Drive) and that met a name Drive lists twice
C23_Witness ==
    /\ out.cmd = "get_library"
    /\ local_books_after(LocalBooks, out.listing) # LocalBooks
    /\ \E i \in 1..Len(out.library) :
          /\ out.library[i].local_path # NoPath
          /\ out.library[i].local_path.cat = None
          /\ out.library[i].category # None
    /\ \E i, j \in 1..Len(out.listing) : i # j /\ out.listing[i].name = out.listing[j].name

(***************************************************************************)
(* The candidates of the bulk commands.                                    *)
(***************************************************************************)
\* a local file that a bulk push has to take up: no Drive file of its name is listed, or
\* every listed one lies in another category; and one it has to leave alone
MustPush(p, listing) ==
    \A i \in 1..Len(Named(listing, p.name)) :
       ~cats_match(p.cat, Named(listing, p.name)[i].category)

MustNotPush(p, listing) ==
    /\ Named(listing, p.name) # <<>>
    /\ \A i \in 1..Len(Named(listing, p.name)) :
          cats_match(p.cat, Named(listing, p.name)[i].category)

\* the local paths among the candidates of push --all, resp. of sync_push(all=True)
CliCandidates == {out.to_upload[i].path : i \in 1..Len(out.to_upload)}

ServiceCandidates == {out.to_upload[i].local_path : i \in 1..Len(out.to_upload)}

\* C24 for push --all alone: the candidates are the local files without a Drive file of
\* their name and those whose Drive file lies in another category, and no file whose
\* Drive file lies in a matching category
C24_CliCandidates ==
    (out.cmd \in {"push_all", "sync_all"} /\ out.result \in {"started", "aborted"}) =>
       LET listing == list_drive_files(folders, objects, out.connected)
       IN \A p \in LocalTree :
             /\ MustPush(p, listing) => p \in CliCandidates
             /\ MustNotPush(p, listing) => p \notin CliCandidates

\* C24: push --all and SyncService.sync_push(all=True) both take up the local files
\* without a Drive file of their name and those whose Drive file lies in another
\* category, and no file whose Drive file lies in a matching category.
C24_SameCandidates ==
    /\ C24_CliCandidates
    /\ (out.cmd = "sync_push" /\ out.path.name = None) =>
          \A p \in LocalTree :
             /\ MustPush(p, out.listing) => p \in ServiceCandidates
             /\ MustNotPush(p, out.listing) => p \notin ServiceCandidates

\* the case in which the two differ: sync_push(all=True) ran with a Drive file of the
\* name listed in another category than the local file, and took up nothing
C24_MismatchLeftOut ==
    /\ out.cmd = "sync_push"
    /\ out.path.name = None
    /\ out.to_upload = <<>>
    /\ \E p \in LocalTree : Named(out.listing, p.name) # <<>> /\ MustPush(p, out.listing)

\* <localRoot>/<category or "General">/<name>
GeneralPath(category, name) == Path(IF category # None THEN category ELSE "General", name)

\* C25: pull --all downloads a book to <localRoot>/<category>/<name>, under "General"
\* when it has no category, and SyncService.sync_pull puts every book at the same path.
C25_PullDestination ==
    [][/\ (out'.cmd = "pull_all_item" /\ out'.result \in {"downloaded", "overwritten"})
            => (/\ out'.path = GeneralPath(out'.category, out'.path.name)
                /\ out'.path \in local')
       /\ \A i \in 1..Len(queue) :
             pc = "pull_all" =>
                pull_target_path(queue[i])
                   = sync_pull_target_path(Book(queue[i].name, queue[i].category, queue[i].id,
                                                NoPath, "new", queue[i].description))]_vars

\* C25 for SyncService.sync_pull alone: every book it reports lies under its category,
\* or under "General"
C25_ServiceDestination ==
    [][(out'.cmd = "sync_pull" /\ out'.path.name = None)
          => \A k \in 1..Len(out'.success) :
                \E i \in 1..Len(objects) :
                   /\ objects[i].name = out'.success[k]
                   /\ GeneralPath(RemoteCat(folders, objects, i), objects[i].name) \in local']_vars

\* C26: a category conflict answered with "use drive" or with "skip" changes nothing:
\* no Drive file is created or moved, no folder is made, no local file is touched and
\* the books table is as before.
C26_KeepDriveChangesNothing ==
    [][(IsCliPush(out') /\ out'.result \in {"kept_drive", "skipped"})
          => (/\ out'.prompts # <<>>
              /\ out'.prompts[Len(out'.prompts)].kind = "conflict"
              /\ UNCHANGED <<local, folders, objects, db>>)]_vars

\* a push of a file filed under "math" met its Drive file in another folder, the user
\* kept the Drive file, and a folder "math" exists on neither side of Drive
C26_Witness ==
    /\ out.cmd = "push"
    /\ out.result = "kept_drive"
    /\ out.category = "math"
    /\ \A k \in 1..Len(folders) : folders[k] # "math"
    /\ IdsNamed(objects, out.path.name) # {}
    /\ db = EmptyBag

\* C27: what a batch reports at its end is what was transferred: the count that
\* pull --all prints is the number of downloads that returned True, the list that
\* sync_pull returns names the files it wrote, the list that sync_push returns has one
\* name for every file it created.
C27_AggregateIsActual ==
    [][/\ (out'.cmd = "pull_all" /\ out'.result = "completed")
            => out'.count = Len(out'.success)
       /\ (out'.cmd = "sync_pull")
            => (/\ \A p \in local' \ local : p.name \in {out'.success[k] : k \in 1..Len(out'.success)}
                /\ \A k \in 1..Len(out'.success) : \E p \in local' : p.name = out'.success[k])
       /\ (out'.cmd = "sync_push")
            => Len(out'.success) = Len(objects') - Len(objects)]_vars

\* C27 for the two lists of SyncService alone
C27_ServiceListsAreActual ==
    [][/\ (out'.cmd = "sync_pull")
            => (/\ \A p \in local' \ local : p.name \in {out'.success[k] : k \in 1..Len(out'.success)}
                /\ \A k \in 1..Len(out'.success) : \E p \in local' : p.name = out'.success[k])
       /\ (out'.cmd = "sync_push")
            => Len(out'.success) = Len(objects') - Len(objects)]_vars

\* the Drive entry of a listing that carries drive_id id
WithId(listing, id) == CHOOSE r \in {listing[i] : i \in 1..Len(listing)} : r.drive_id = id

\* C28: a catalog entry that has a drive_id and no category from the local side carries
\* the category of the Drive file with that drive_id, also when Drive lists several
\* files of the name.
C28_IdAndCategoryOfOneFile ==
    out.cmd \in {"get_library", "get_diff"} =>
       \A i \in 1..Len(out.library) :
          LET e == out.library[i]
              local_cat == IF e.name \in LocalNames
                           THEN LastNamed(LocalBooks, e.name).category ELSE None
          IN (e.drive_id # NoDriveId /\ local_cat = None)
                => e.category = WithId(out.listing, e.drive_id).category

(***************************************************************************)
(* A sync --all that goes well: no name is held twice on either side, the *)
(* Drive answers every call, the user confirms both passes and answers    *)
(* every category conflict with "use local".                              *)
(***************************************************************************)
NoDuplicateNames ==
    /\ \A p, q \in local : p.name = q.name => p = q
    /\ \A i, j \in 1..Len(objects) : objects[i].name = objects[j].name => i = j

ConvergeInit ==
    /\ Init
    /\ config = [local_path |-> TRUE, root_folder_id |-> TRUE]

ConvergeSyncStart ==
    /\ NoDuplicateNames
    /\ SyncStart
    /\ out'.connected
    /\ out'.result \in {"started", "all_synced"}

ConvergePushStep ==
    /\ PushAllStep
    /\ out'.result \in {"uploaded", "moved", "already_exists"}

ConvergePullStart ==
    /\ SyncPullStart
    /\ out'.connected
    /\ out'.result \in {"started", "all_synced"}

ConvergePullStep ==
    /\ PullAllStep
    /\ out'.result \in {"downloaded", "overwritten"}

ConvergeNext ==
    \/ LocalAdd
    \/ RemoteAdd
    \/ ConvergeSyncStart
    \/ ConvergePushStep
    \/ PushAllDone
    \/ ConvergePullStart
    \/ ConvergePullStep
    \/ PullAllDone

ConvergeSpec == ConvergeInit /\ [][ConvergeNext]_vars

OrganizeDest(o) == Path(o.category, o.path.name)

\* C30: organize moves the local file, then the Drive file, then writes the row.  A
\* failed local move ends the command with nothing moved on Drive and no row written;
\* when the local move went through and Drive lists a file of the name, the local file
\* and that Drive file end in the new category and the row holds the new category and
\* the new path (a Drive call that raises ends the command before the row is written);
\* the row without a Drive file is written only when Drive lists none of the name.
C30_OrganizeOrder ==
    [][/\ (out'.cmd = "organize" /\ out'.result = "move_failed")
            => (UNCHANGED <<local, folders, objects, db>> /\ pc' = "idle")
       /\ (out'.cmd = "organize" /\ out'.result = "moved")
            => (/\ OrganizeDest(out') \in local'
                /\ out'.path \notin local'
                /\ out'.drive_id \in IdsNamed(objects, out'.path.name)
                /\ RemoteCat(folders', objects', out'.drive_id) = out'.category
                /\ Cardinality(objects'[out'.drive_id].parents) = 1
                /\ Len(objects') = Len(objects)
                /\ db' = save_book(db, out'.path.name, out'.drive_id, out'.category,
                                   OrganizeDest(out')))
       /\ (out'.cmd = "organize" /\ out'.result = "raised")
            => (OrganizeDest(out') \in local' /\ objects' = objects /\ db' = db)
       /\ (out'.cmd = "organize" /\ out'.result = "moved_local" /\ out'.connected)
            => IdsNamed(objects, out'.path.name) = {}]_vars

\* an organize that moved a.pdf from the local root and from the Drive root into "math",
\* where Drive had no folder "math" before
C30_Witness ==
    /\ out.cmd = "organize"
    /\ out.result = "moved"
    /\ out.path = Path(None, "a.pdf")
    /\ local = {Path("math", "a.pdf")}
    /\ folders = <<"math">>
    /\ objects[out.drive_id].parents = {1}
    /\ BagToSet(db) = {[title |-> "a.pdf", drive_id |-> out.drive_id, category |-> "math",
                         local_path |-> Path("math", "a.pdf")]}

\* the other case of C30: the local move failed
C30_FailedWitness ==
    /\ out.cmd = "organize"
    /\ out.result = "move_failed"
    /\ IdsNamed(objects, out.path.name) # {}

(***************************************************************************)
(* The read-only commands on every library the user can set up: the       *)
(* catalog merge and the listings, with no writing command run.           *)
(***************************************************************************)
MergeNext ==
    \/ LocalAdd
    \/ RemoteAdd
    \/ Mark
    \/ GetLibrary
    \/ GetDiff
    \/ ListCmd

MergeSpec == Init /\ [][MergeNext]_vars

Next ==
    \/ LocalAdd
    \/ RemoteAdd
    \/ GetLibrary
    \/ GetDiff
    \/ ListCmd
    \/ Push
    \/ PushAllStart
    \/ PushAllStep
    \/ PushAllDone
    \/ Pull
    \/ PullAllStart
    \/ PullAllStep
    \/ PullAllDone
    \/ SyncPush
    \/ SyncPull
    \/ Mark
    \/ SyncStart
    \/ SyncPullStart
    \/ Organize

Spec == Init /\ [][Next]_vars

====
